---- MODULE Spec2Model ----
(***************************************************************************)
(* Model of the Ruby voice agent: the conversation cycle of                *)
(* ruby/ruby_mainframe.py (Ruby.listen, Ruby.speak, Ruby.reset, Ruby.run), *)
(* the worker thread and the presentation loop of frontend/app.py, the     *)
(* playback part of utiles/tts.py, the tools of utiles/ruby_tools.py, the *)
(* knowledge store of utiles/rag_utiles.py and RubySTT.listen of           *)
(* utiles/stt.py.                                                          *)
(* Each action is one statement (or one blocking call) of the source, so   *)
(* that the threads interleave between statements as they do in CPython.   *)
(***************************************************************************)
EXTENDS Integers, Sequences, FiniteSets, TLC

VARIABLES
    driver,            \* which loop drives the cycle: RubyWorker.run or Ruby.run
    pc,                \* position of the thread that runs the cycle
    ruby_state,        \* Ruby.ruby_state
    chat_history,      \* Ruby.chat_history["messages"]
    user_input,        \* local user_input of the driver / parameter of speak
    response,          \* content of response["messages"][-1] in speak
    running,           \* RubyWorker.running
    tts_language_code, \* RubyTTS.language_code
    tts_voice_name,    \* RubyTTS.voice.name
    stt_language_code, \* RubySTT.language_code
    stt_config_language, \* RubySTT.recognition_config.language_code
    language,          \* argument of the running SwitchLanguageTool._run
    switch_result,     \* text returned by the last SwitchLanguageTool._run
    playing,           \* pygame.mixer.music.get_busy()
    cache_file,        \* the temporary mp3 of text_to_speech exists
    video_process,     \* the mpv process of YouTubeVideoPlayerTool is alive
    tool_calls,        \* tool invocations made by the current model.invoke
    uipc,              \* position of the presentation loop (main)
    ui_running,        \* local running of main
    rpc,               \* position of a caller of Ruby.reset in another context
    \* ---- history variables: they record what happened, the code has no such fields
    cycle_start_len,   \* len(chat_history) when the current cycle called listen
    failed,            \* the collaborator that raised in the current cycle
    reasoned,          \* model.invoke was called in the current cycle
    stop_calls,        \* number of tts.stop() calls of the current click handler
    stop_handled,      \* a click handler that saw Speaking in this cycle has completed
    ui_stale,          \* the cycle the running click handler observed has ended
    reset_in_cycle,    \* reset assigned chat_history while this cycle was inside speak
    turns_after_reset, \* turns the in-flight cycle appended after that reset
    \* ---- the knowledge store (utiles/rag_utiles.py)
    db_index,          \* the FAISS index persisted at db_path
    rag,               \* the RubyRAG instances: vectorstore and position
    rag_out,           \* outcome of the last call on the store (history variable)
    persisted_by,      \* in-memory index of the last instance that saved
                       \* (history variable)
    \* ---- the frame of the presentation loop (app.py 93-132)
    frame,             \* color and status_text of the frame being computed
    held,              \* phase values held since the frame's first read
                       \* (history variable)
    \* ---- the collaborators called directly
    tts_text,          \* parameter text of the running text_to_speech
    tts_outcome,       \* how the last text_to_speech ended, and its text
                       \* (history variable)
    stt_call           \* the running RubySTT.listen: its responses and position

vars == <<driver, pc, ruby_state, chat_history, user_input, response, running,
          tts_language_code, tts_voice_name, stt_language_code,
          stt_config_language, language, switch_result, playing, cache_file,
          video_process, tool_calls, uipc, ui_running, rpc, cycle_start_len,
          failed, reasoned, stop_calls, stop_handled, ui_stale, reset_in_cycle,
          turns_after_reset, db_index, rag, rag_out, persisted_by, frame,
          held, tts_text, tts_outcome, stt_call>>

\* the variables of the voice agent
rubyVars == <<driver, pc, ruby_state, chat_history, user_input, response,
              running, tts_language_code, tts_voice_name, stt_language_code,
              stt_config_language, language, switch_result, playing,
              cache_file, video_process, tool_calls, uipc, ui_running, rpc,
              cycle_start_len, failed, reasoned, stop_calls, stop_handled,
              ui_stale, reset_in_cycle, turns_after_reset, frame, held,
              tts_text, tts_outcome, stt_call>>

langVars == <<tts_language_code, tts_voice_name, stt_language_code,
              stt_config_language, language, switch_result>>
audioVars == <<playing, cache_file, video_process>>
uiVars == <<uipc, ui_running>>
ghostVars == <<cycle_start_len, failed, reasoned, stop_calls, stop_handled,
               ui_stale, reset_in_cycle, turns_after_reset>>
ragVars == <<db_index, rag, rag_out, persisted_by>>

----------------------------------------------------------------------------
(* Bounds of the model *)

\* longest history the capture collaborator is still given an utterance for
MaxHistory == 5
\* most tool invocations the reasoning collaborator makes in one model.invoke
MaxToolCalls == 1
\* most chunks an index holds: no ingestion is started that would exceed it
MaxIndex == 2

----------------------------------------------------------------------------
(* Values *)

\* the three spellings the code uses for the idle phase
IdleValues == {"idel", "Idel", "idle"}

BusyValues == {"Listening", "Thinking", "Speaking", "Searching Video",
               "Playing Video", "switching_language"}

\* RubyTTS.language_config: the supported languages, with the voice_name of each
language_config ==
    ("en-IN" :> "en-IN-Standard-D") @@ ("ml-IN" :> "ml-IN-Standard-A")
        @@ ("ta-IN" :> "ta-IN-Standard-A")

Registered == DOMAIN language_config

\* identifiers the reasoning collaborator may pass to switch_language
LanguageInputs == Registered \cup {"fr-FR"}

\* transcripts the capture collaborator may return
Transcripts == {"", "hi"}

\* final texts the reasoning collaborator may return
Replies == {"", "ok"}

SystemTurn == [role |-> "system", content |-> "system_prompt"]

HumanMessage(text) == [role |-> "user", content |-> text]

AIMessage(text) == [role |-> "assistant", content |-> text]

\* the positions of the presentation loop inside the STATE -> COLOR chain
\* and the drawing that follows it (app.py 96-132)
FramePcs == {"f96", "f100", "f104", "f108", "f112", "f124"}

\* the phase values held while a frame is computed, v being written now
Held(v) == IF uipc \in FramePcs THEN held \cup {v} ELSE held

\* Python values that reach text_to_speech, with their type
PyNone == [type |-> "NoneType", repr |-> "None"]

PyStr(t) == [type |-> "str", repr |-> t]

PyInt(t) == [type |-> "int", repr |-> t]

\* no call of text_to_speech is running: the parameter is not bound
Unbound == [type |-> "unbound", repr |-> ""]

\* text_to_speech has not been called in this cycle
NoCall == [how |-> "none", text |-> Unbound]

\* no RubySTT.listen is running
NoListen == [pc |-> "out", responses |-> <<>>, i |-> 0, ret |-> ""]

\* no frame computed yet
NoFrame == [color |-> "BG_COLOR", status_text |-> ""]

\* the positions of the cycle thread that lie inside Ruby.speak
SpeakPcs == {"s93", "s94", "s97", "agent", "sw106", "sw108", "sw109", "sw111",
             "yt29", "yt51", "yt55", "yt63", "yt66", "s100", "s102", "t158",
             "toolerr", "t165", "t176", "t180", "t184", "t189", "s106"}

----------------------------------------------------------------------------
(* Initial states: Ruby.__init__, RubyTTS.__init__, RubySTT.__init__ *)

InitRuby ==
    /\ pc = "loop"
    /\ ruby_state = "idel"
    /\ chat_history = <<SystemTurn>>
    /\ user_input = ""
    /\ response = ""
    /\ running = TRUE
    /\ tts_language_code = "en-IN"
    /\ tts_voice_name = language_config["en-IN"]
    /\ stt_language_code = "en-IN"
    /\ stt_config_language = "en-IN"
    /\ language = "en-IN"
    /\ switch_result = ""
    /\ playing = FALSE
    /\ cache_file = FALSE
    /\ video_process = FALSE
    /\ tool_calls = 0
    /\ uipc = "events"
    /\ ui_running = TRUE
    /\ rpc = "out"
    /\ cycle_start_len = 1
    /\ failed = "none"
    /\ reasoned = FALSE
    /\ stop_calls = 0
    /\ stop_handled = FALSE
    /\ ui_stale = FALSE
    /\ reset_in_cycle = FALSE
    /\ turns_after_reset = 0
    /\ frame = NoFrame
    /\ held = {}
    /\ tts_text = Unbound
    /\ tts_outcome = NoCall
    /\ stt_call = NoListen

\* the knowledge store: nothing persisted at db_path, no RubyRAG instance yet
RagIds == {1, 2}

\* self.vectorstore = None (rag_utiles.py 44)
NoIndex == [present |-> FALSE, chunks |-> <<>>, vectors |-> <<>>]

\* no directory at db_path: os.path.exists(db_path) is False (rag_utiles.py 46)
NoFiles == [present |-> FALSE, faiss |-> <<>>, pkl |-> <<>>]

NoOutcome ==
    [op |-> "none", id |-> 0, q |-> "", k |-> 0, raised |-> FALSE, text |-> ""]

InitStore ==
    /\ db_index = NoFiles
    /\ rag = [i \in RagIds |->
                [state |-> "unborn", vectorstore |-> NoIndex, file |-> "",
                 docs |-> <<>>, pre |-> NoIndex, embedded |-> FALSE]]
    /\ rag_out = NoOutcome
    /\ persisted_by = NoIndex

\* frontend/app.py: main() starts a RubyWorker and runs the presentation loop
Init == driver = "worker" /\ InitRuby /\ InitStore

\* ruby_mainframe.py run as a console program: Ruby.run drives the cycle
InitConsole == driver = "console" /\ InitRuby /\ InitStore

----------------------------------------------------------------------------
(* An exception leaving listen or speak *)

\* RubyWorker.run catches it (except Exception); Ruby.run has no handler
Raise(who) ==
    /\ pc' = IF driver = "worker" THEN "except" ELSE "crashed"
    /\ failed' = who

----------------------------------------------------------------------------
(* The process is alive until main() returns; the worker is a daemon thread *)

Alive == uipc # "exited"

----------------------------------------------------------------------------
(* The drivers: RubyWorker.run (app.py 49-57) and Ruby.run (130-132) *)

\* `while self.running:` in RubyWorker.run, `while True:` in Ruby.run
LoopTest ==
    /\ Alive
    /\ pc = "loop"
    /\ pc' = IF driver = "console" \/ running THEN "listen" ELSE "done"
    /\ UNCHANGED <<driver, ragVars, frame, stt_call, tts_outcome, held, tts_text,
                   ruby_state, chat_history, user_input, response,
                   running, langVars, audioVars, tool_calls, uiVars, rpc,
                   ghostVars>>

\* Ruby.listen, line 115: self.ruby_state = "Listening"; a new cycle begins
Listen115 ==
    /\ Alive
    /\ pc = "listen"
    /\ ruby_state' = "Listening"
    /\ pc' = "capture"
    /\ cycle_start_len' = Len(chat_history)
    /\ failed' = "none"
    /\ reasoned' = FALSE
    /\ stop_handled' = FALSE
    /\ ui_stale' = (ui_stale \/ uipc \in {"u90", "u91"})
    /\ reset_in_cycle' = FALSE
    /\ turns_after_reset' = 0
    /\ tts_outcome' = NoCall
    /\ held' = Held(ruby_state')
    /\ UNCHANGED <<driver, ragVars, frame, stt_call, tts_text,
                   chat_history, user_input, response, running,
                   langVars, audioVars, tool_calls, uiVars, rpc, stop_calls>>

\* Ruby.listen, lines 116-118: self.stt.listen() returns a transcript.
\* RubySTT.listen blocks until an utterance arrives; none arrives once the
\* history has reached MaxHistory and the transcript would be appended.
CaptureReturns ==
    /\ Alive
    /\ pc = "capture"
    /\ \E t \in Transcripts :
          /\ \/ (driver = "worker" /\ t = "")
             \/ Len(chat_history) + 2 <= MaxHistory
          /\ user_input' = t
    /\ pc' = "check"
    /\ UNCHANGED <<driver, ragVars, frame, stt_call, tts_outcome, held, tts_text,
                   ruby_state, chat_history, response, running,
                   langVars, audioVars, tool_calls, uiVars, rpc, ghostVars>>

\* self.stt.listen() raises (the recognition stream or the microphone fails)
CaptureFails ==
    /\ Alive
    /\ pc = "capture"
    /\ Raise("capture")
    /\ UNCHANGED <<driver, ragVars, frame, stt_call, tts_outcome, held, tts_text,
                   ruby_state, chat_history, user_input, response,
                   running, langVars, audioVars, tool_calls, uiVars, rpc,
                   cycle_start_len, reasoned, stop_calls, stop_handled,
                   ui_stale, reset_in_cycle, turns_after_reset>>

\* RubyWorker.run line 53: `if user_input:` guards speak; Ruby.run line 132
\* calls self.speak(user_input) whatever the transcript is
CheckInput ==
    /\ Alive
    /\ pc = "check"
    /\ pc' = IF driver = "worker" /\ user_input = "" THEN "loop" ELSE "s93"
    /\ UNCHANGED <<driver, ragVars, frame, stt_call, tts_outcome, held, tts_text,
                   ruby_state, chat_history, user_input, response,
                   running, langVars, audioVars, tool_calls, uiVars, rpc,
                   ghostVars>>

\* a worker whose handler leaves the loop instead of going round it
ExceptLeavesLoop ==
    /\ Alive
    /\ pc = "except"
    /\ pc' = "done"
    /\ UNCHANGED <<driver, ragVars, frame, stt_call, tts_outcome, held, tts_text,
                   ruby_state, chat_history, user_input, response,
                   running, langVars, audioVars, tool_calls, uiVars, rpc,
                   ghostVars>>

\* RubyWorker.run lines 55-57: except Exception: print, sleep(1), loop again
Except ==
    /\ Alive
    /\ pc = "except"
    /\ pc' = "loop"
    /\ UNCHANGED <<driver, ragVars, frame, stt_call, tts_outcome, held, tts_text,
                   ruby_state, chat_history, user_input, response,
                   running, langVars, audioVars, tool_calls, uiVars, rpc,
                   ghostVars>>

----------------------------------------------------------------------------
(* Ruby.speak (ruby_mainframe.py 83-107) *)

\* line 93: self.ruby_state = "Thinking"
Speak93 ==
    /\ Alive
    /\ pc = "s93"
    /\ ruby_state' = "Thinking"
    /\ pc' = "s94"
    /\ held' = Held(ruby_state')
    /\ UNCHANGED <<driver, ragVars, frame, stt_call, tts_outcome, tts_text,
                   chat_history, user_input, response, running,
                   langVars, audioVars, tool_calls, uiVars, rpc, ghostVars>>

\* line 94: self.chat_history["messages"].append(HumanMessage(user_input))
Speak94 ==
    /\ Alive
    /\ pc = "s94"
    /\ chat_history' = Append(chat_history, HumanMessage(user_input))
    /\ pc' = "s97"
    /\ turns_after_reset' = turns_after_reset + (IF reset_in_cycle THEN 1 ELSE 0)
    /\ UNCHANGED <<driver, ragVars, frame, stt_call, tts_outcome, held, tts_text,
                   ruby_state, user_input, response, running,
                   langVars, audioVars, tool_calls, uiVars, rpc,
                   cycle_start_len, failed, reasoned, stop_calls,
                   stop_handled, ui_stale, reset_in_cycle>>

\* line 97: self.model.invoke(self.chat_history) is entered
Speak97 ==
    /\ Alive
    /\ pc = "s97"
    /\ pc' = "agent"
    /\ reasoned' = TRUE
    /\ tool_calls' = 0
    /\ UNCHANGED <<driver, ragVars, frame, stt_call, tts_outcome, held, tts_text,
                   ruby_state, chat_history, user_input, response,
                   running, langVars, audioVars, uiVars, rpc, cycle_start_len,
                   failed, stop_calls, stop_handled, ui_stale, reset_in_cycle,
                   turns_after_reset>>

\* line 97: model.invoke returns; response["messages"][-1].content is r
AgentReturns ==
    /\ Alive
    /\ pc = "agent"
    /\ \E r \in Replies : response' = r
    /\ pc' = "s100"
    /\ UNCHANGED <<driver, ragVars, frame, stt_call, tts_outcome, held, tts_text,
                   ruby_state, chat_history, user_input, running,
                   langVars, audioVars, tool_calls, uiVars, rpc, ghostVars>>

\* line 97: model.invoke raises (the reasoning provider fails)
AgentFails ==
    /\ Alive
    /\ pc = "agent"
    /\ Raise("reasoning")
    /\ UNCHANGED <<driver, ragVars, frame, stt_call, tts_outcome, held, tts_text,
                   ruby_state, chat_history, user_input, response,
                   running, langVars, audioVars, tool_calls, uiVars, rpc,
                   cycle_start_len, reasoned, stop_calls, stop_handled,
                   ui_stale, reset_in_cycle, turns_after_reset>>

\* a speak that forgets to append the reply to the history
Speak100NoAppend ==
    /\ Alive
    /\ pc = "s100"
    /\ pc' = "s102"
    /\ UNCHANGED <<driver, ragVars, frame, stt_call, tts_outcome, held, tts_text,
                   ruby_state, chat_history, user_input, response,
                   running, langVars, audioVars, tool_calls, uiVars, rpc,
                   ghostVars>>

\* line 100: self.chat_history["messages"].append(response["messages"][-1])
Speak100 ==
    /\ Alive
    /\ pc = "s100"
    /\ chat_history' = Append(chat_history, AIMessage(response))
    /\ pc' = "s102"
    /\ turns_after_reset' = turns_after_reset + (IF reset_in_cycle THEN 1 ELSE 0)
    /\ UNCHANGED <<driver, ragVars, frame, stt_call, tts_outcome, held, tts_text,
                   ruby_state, user_input, response, running,
                   langVars, audioVars, tool_calls, uiVars, rpc,
                   cycle_start_len, failed, reasoned, stop_calls,
                   stop_handled, ui_stale, reset_in_cycle>>

\* line 102: self.ruby_state = "Speaking"; line 104: text_to_speech is
\* called with response["messages"][-1].content
Speak102 ==
    /\ Alive
    /\ pc = "s102"
    /\ ruby_state' = "Speaking"
    /\ pc' = "t158"
    /\ tts_text' = PyStr(response)
    /\ held' = Held(ruby_state')
    /\ UNCHANGED <<driver, ragVars, frame, stt_call, tts_outcome,
                   chat_history, user_input, response, running,
                   langVars, audioVars, tool_calls, uiVars, rpc, ghostVars>>

\* line 106-107: self.ruby_state = "idel"; return
Speak106 ==
    /\ Alive
    /\ pc = "s106"
    /\ ruby_state' = "idel"
    /\ pc' = "loop"
    /\ held' = Held(ruby_state')
    /\ UNCHANGED <<driver, ragVars, frame, stt_call, tts_outcome, tts_text,
                   chat_history, user_input, response, running,
                   langVars, audioVars, tool_calls, uiVars, rpc, ghostVars>>

----------------------------------------------------------------------------
(* RubyTTS.text_to_speech (tts.py 145-191), called from speak line 104 *)

\* Python truth value of the values above: None, "" and 0 are false
Falsy(v) ==
    \/ v.type = "NoneType"
    \/ v.type = "str" /\ v.repr = ""
    \/ v.type = "int" /\ v.repr = "0"

\* a validation that only tests `not text`
TTSRejectsFalsy(v) == Falsy(v)

\* line 158: `not text or not isinstance(text, str)`
TTSRejects(v) == Falsy(v) \/ v.type # "str"

\* where text_to_speech returns to: speak line 106, or the direct caller
TTSReturn == IF driver = "direct" THEN "loop" ELSE "s106"

\* lines 158-160: `if not text or not isinstance(text, str): return None`
TTS158 ==
    /\ Alive
    /\ pc = "t158"
    /\ pc' = IF TTSRejects(tts_text) THEN TTSReturn ELSE "t165"
    /\ tts_text' = IF TTSRejects(tts_text) THEN Unbound ELSE tts_text
    /\ tts_outcome' = IF TTSRejects(tts_text)
                      THEN [how |-> "early", text |-> tts_text]
                      ELSE tts_outcome
    /\ UNCHANGED <<driver, ragVars, frame, stt_call, held,
                   ruby_state, chat_history, user_input, response,
                   running, langVars, audioVars, tool_calls, uiVars, rpc,
                   ghostVars>>

\* lines 165-169: self.client.synthesize_speech(...) returns the audio
TTS165 ==
    /\ Alive
    /\ pc = "t165"
    /\ pc' = "t176"
    /\ UNCHANGED <<driver, ragVars, frame, stt_call, tts_outcome, held, tts_text,
                   ruby_state, chat_history, user_input, response,
                   running, langVars, audioVars, tool_calls, uiVars, rpc,
                   ghostVars>>

\* lines 165-169: synthesize_speech raises (the synthesis provider fails)
TTSFails ==
    /\ Alive
    /\ pc = "t165"
    /\ Raise("synthesis")
    /\ tts_text' = Unbound
    /\ tts_outcome' = [how |-> "raised", text |-> tts_text]
    /\ UNCHANGED <<driver, ragVars, frame, stt_call, held,
                   ruby_state, chat_history, user_input, response,
                   running, langVars, audioVars, tool_calls, uiVars, rpc,
                   cycle_start_len, reasoned, stop_calls, stop_handled,
                   ui_stale, reset_in_cycle, turns_after_reset>>

\* lines 173-177: the audio is written to the cache file
TTS176 ==
    /\ Alive
    /\ pc = "t176"
    /\ cache_file' = TRUE
    /\ pc' = "t180"
    /\ UNCHANGED <<driver, ragVars, frame, stt_call, tts_outcome, held, tts_text,
                   ruby_state, chat_history, user_input, response,
                   running, langVars, playing, video_process, tool_calls,
                   uiVars, rpc, ghostVars>>

\* lines 180-181: pygame.mixer.music.load(cache_file); pygame.mixer.music.play()
TTS181 ==
    /\ Alive
    /\ pc = "t180"
    /\ playing' = TRUE
    /\ pc' = "t184"
    /\ UNCHANGED <<driver, ragVars, frame, stt_call, tts_outcome, held, tts_text,
                   ruby_state, chat_history, user_input, response,
                   running, langVars, cache_file, video_process, tool_calls,
                   uiVars, rpc, ghostVars>>

\* text_to_speech without the wait of lines 184-185
TTS184NoWait ==
    /\ Alive
    /\ pc = "t184"
    /\ pc' = "t189"
    /\ UNCHANGED <<driver, ragVars, frame, stt_call, tts_outcome, held, tts_text,
                   ruby_state, chat_history, user_input, response,
                   running, langVars, audioVars, tool_calls, uiVars, rpc,
                   ghostVars>>

\* lines 184-185: `while pygame.mixer.music.get_busy(): tick` is left
TTS184 ==
    /\ Alive
    /\ pc = "t184"
    /\ ~playing
    /\ pc' = "t189"
    /\ UNCHANGED <<driver, ragVars, frame, stt_call, tts_outcome, held, tts_text,
                   ruby_state, chat_history, user_input, response,
                   running, langVars, audioVars, tool_calls, uiVars, rpc,
                   ghostVars>>

\* lines 188-189: os.remove(cache_file) succeeds; text_to_speech returns
TTS189 ==
    /\ Alive
    /\ pc = "t189"
    /\ cache_file' = FALSE
    /\ pc' = TTSReturn
    /\ tts_text' = Unbound
    /\ tts_outcome' = [how |-> "played", text |-> tts_text]
    /\ UNCHANGED <<driver, ragVars, frame, stt_call, held,
                   ruby_state, chat_history, user_input, response,
                   running, langVars, playing, video_process, tool_calls,
                   uiVars, rpc, ghostVars>>

\* lines 190-191: os.remove raises OSError (the file is locked: the mixer
\* still has it loaded), `except OSError: pass`; text_to_speech returns
TTS191 ==
    /\ Alive
    /\ pc = "t189"
    /\ pc' = TTSReturn
    /\ tts_text' = Unbound
    /\ tts_outcome' = [how |-> "played", text |-> tts_text]
    /\ UNCHANGED <<driver, ragVars, frame, stt_call, held,
                   ruby_state, chat_history, user_input, response,
                   running, langVars, audioVars, tool_calls,
                   uiVars, rpc, ghostVars>>

\* the mixer reaches the end of the clip
ClipEnds ==
    /\ Alive
    /\ playing
    /\ playing' = FALSE
    /\ UNCHANGED <<driver, ragVars, frame, stt_call, tts_outcome, held, tts_text,
                   pc, ruby_state, chat_history, user_input, response,
                   running, langVars, cache_file, video_process, tool_calls,
                   uiVars, rpc, ghostVars>>

\* RubyTTS.stop (tts.py 193-195): pygame.mixer.music.stop()
RubyTTSStop == playing' = FALSE

----------------------------------------------------------------------------
(* Language switching: RubyTTS.update_language (tts.py 88-121),            *)
(* RubySTT.update_language (stt.py 61-84), SwitchLanguageTool._run         *)
(* (ruby_tools.py 104-112)                                                 *)

\* an update_language that keeps the active language when l is unsupported
TTSKeepsLanguage(l) == IF l \notin Registered THEN tts_language_code ELSE l

\* tts.py 100-102: an unsupported language is replaced by 'en-IN'
TTSEffectiveLanguage(l) == IF l \notin Registered THEN "en-IN" ELSE l

\* tts.py 88-121: language_code and the voice follow the effective language
RubyTTSUpdateLanguage(l) ==
    /\ tts_language_code' = TTSEffectiveLanguage(l)
    /\ tts_voice_name' = language_config[TTSEffectiveLanguage(l)]

\* an update_language that sets language_code and leaves the configs stale
RubySTTUpdateLanguageStale(l) ==
    /\ stt_language_code' = l
    /\ stt_config_language' = stt_config_language

\* stt.py 71-84: language_code and the recognition config take l as given
RubySTTUpdateLanguage(l) ==
    /\ stt_language_code' = l
    /\ stt_config_language' = l

\* the agent of model.invoke calls switch_language with an identifier
AgentCallsSwitch ==
    /\ Alive
    /\ pc = "agent"
    /\ tool_calls < MaxToolCalls
    /\ tool_calls' = tool_calls + 1
    /\ \E l \in LanguageInputs : language' = l
    /\ pc' = "sw106"
    /\ UNCHANGED <<driver, ragVars, frame, stt_call, tts_outcome, held, tts_text,
                   ruby_state, chat_history, user_input, response,
                   running, tts_language_code, tts_voice_name,
                   stt_language_code, stt_config_language, switch_result,
                   audioVars, uiVars, rpc, ghostVars>>

\* ruby_tools.py 106: self._ruby.ruby_state = "switching_language"
Switch106 ==
    /\ Alive
    /\ pc = "sw106"
    /\ ruby_state' = "switching_language"
    /\ pc' = "sw108"
    /\ held' = Held(ruby_state')
    /\ UNCHANGED <<driver, ragVars, frame, stt_call, tts_outcome, tts_text,
                   chat_history, user_input, response, running,
                   langVars, audioVars, tool_calls, uiVars, rpc, ghostVars>>

\* ruby_tools.py 108: self._ruby.tts.update_language(language)
Switch108 ==
    /\ Alive
    /\ pc = "sw108"
    /\ RubyTTSUpdateLanguage(language)
    /\ pc' = "sw109"
    /\ UNCHANGED <<driver, ragVars, frame, stt_call, tts_outcome, held, tts_text,
                   ruby_state, chat_history, user_input, response,
                   running, stt_language_code, stt_config_language, language,
                   switch_result, audioVars, tool_calls, uiVars, rpc,
                   ghostVars>>

\* ruby_tools.py 109: self._ruby.stt.update_language(language)
Switch109 ==
    /\ Alive
    /\ pc = "sw109"
    /\ RubySTTUpdateLanguage(language)
    /\ pc' = "sw111"
    /\ UNCHANGED <<driver, ragVars, frame, stt_call, tts_outcome, held, tts_text,
                   ruby_state, chat_history, user_input, response,
                   running, tts_language_code, tts_voice_name, language,
                   switch_result, audioVars, tool_calls, uiVars, rpc,
                   ghostVars>>

\* ruby_tools.py 112: the text the tool returns, for every identifier
SwitchResult(l) == "Switched to " \o l

\* ruby_tools.py 111-112: ruby_state = "idle"; return f"Switched to {language}"
Switch111 ==
    /\ Alive
    /\ pc = "sw111"
    /\ ruby_state' = "idle"
    /\ switch_result' = SwitchResult(language)
    /\ pc' = "agent"
    /\ held' = Held(ruby_state')
    /\ UNCHANGED <<driver, ragVars, frame, stt_call, tts_outcome, tts_text,
                   chat_history, user_input, response, running,
                   tts_language_code, tts_voice_name, stt_language_code,
                   stt_config_language, language, audioVars, tool_calls,
                   uiVars, rpc, ghostVars>>

----------------------------------------------------------------------------
(* YouTubeVideoPlayerTool._run (ruby_tools.py 24-67) *)

\* the agent of model.invoke calls youtube_video_player
AgentCallsYouTube ==
    /\ Alive
    /\ pc = "agent"
    /\ tool_calls < MaxToolCalls
    /\ tool_calls' = tool_calls + 1
    /\ pc' = "yt29"
    /\ UNCHANGED <<driver, ragVars, frame, stt_call, tts_outcome, held, tts_text,
                   ruby_state, chat_history, user_input, response,
                   running, langVars, audioVars, uiVars, rpc, ghostVars>>

\* line 29: self._ruby.ruby_state = "Searching Video"
YouTube29 ==
    /\ Alive
    /\ pc = "yt29"
    /\ ruby_state' = "Searching Video"
    /\ pc' = "yt51"
    /\ held' = Held(ruby_state')
    /\ UNCHANGED <<driver, ragVars, frame, stt_call, tts_outcome, tts_text,
                   chat_history, user_input, response, running,
                   langVars, audioVars, tool_calls, uiVars, rpc, ghostVars>>

\* lines 49-53: extract_info resolves the query to a stream url
YouTube51 ==
    /\ Alive
    /\ pc = "yt51"
    /\ pc' = "yt55"
    /\ UNCHANGED <<driver, ragVars, frame, stt_call, tts_outcome, held, tts_text,
                   ruby_state, chat_history, user_input, response,
                   running, langVars, audioVars, tool_calls, uiVars, rpc,
                   ghostVars>>

\* lines 51-52: extract_info raises, or info["entries"] is empty and [0]
\* raises IndexError; _run has no try, the exception leaves the tool
YouTube51Fails ==
    /\ Alive
    /\ pc = "yt51"
    /\ pc' = "toolerr"
    /\ UNCHANGED <<driver, ragVars, frame, stt_call, tts_outcome, held, tts_text,
                   ruby_state, chat_history, user_input, response,
                   running, langVars, audioVars, tool_calls, uiVars, rpc,
                   ghostVars>>

\* lines 55-62: subprocess.Popen(["mpv", ...]) starts the player
YouTube55 ==
    /\ Alive
    /\ pc = "yt55"
    /\ video_process' = TRUE
    /\ pc' = "yt63"
    /\ UNCHANGED <<driver, ragVars, frame, stt_call, tts_outcome, held, tts_text,
                   ruby_state, chat_history, user_input, response,
                   running, langVars, playing, cache_file, tool_calls, uiVars,
                   rpc, ghostVars>>

\* the player reaches the end of the video or its window is closed
VideoEnds ==
    /\ Alive
    /\ video_process
    /\ video_process' = FALSE
    /\ UNCHANGED <<driver, ragVars, frame, stt_call, tts_outcome, held, tts_text,
                   pc, ruby_state, chat_history, user_input, response,
                   running, langVars, playing, cache_file, tool_calls, uiVars,
                   rpc, ghostVars>>

\* lines 63-64: process.wait() returns once the player has ended
YouTube63 ==
    /\ Alive
    /\ pc = "yt63"
    /\ ~video_process
    /\ pc' = "yt66"
    /\ UNCHANGED <<driver, ragVars, frame, stt_call, tts_outcome, held, tts_text,
                   ruby_state, chat_history, user_input, response,
                   running, langVars, audioVars, tool_calls, uiVars, rpc,
                   ghostVars>>

\* lines 66-67: self._ruby.ruby_state = "Playing Video"; return
YouTube66 ==
    /\ Alive
    /\ pc = "yt66"
    /\ ruby_state' = "Playing Video"
    /\ pc' = "agent"
    /\ held' = Held(ruby_state')
    /\ UNCHANGED <<driver, ragVars, frame, stt_call, tts_outcome, tts_text,
                   chat_history, user_input, response, running,
                   langVars, audioVars, tool_calls, uiVars, rpc, ghostVars>>

\* the agent built by create_agent (ruby_mainframe.py 77-81) lets the tool's
\* exception leave model.invoke
ToolErrorPropagates ==
    /\ Alive
    /\ pc = "toolerr"
    /\ Raise("tool")
    /\ UNCHANGED <<driver, ragVars, frame, stt_call, tts_outcome, held, tts_text,
                   ruby_state, chat_history, user_input, response,
                   running, langVars, audioVars, tool_calls, uiVars, rpc,
                   cycle_start_len, reasoned, stop_calls, stop_handled,
                   ui_stale, reset_in_cycle, turns_after_reset>>

\* or the agent turns the exception into a tool message and goes on
ToolErrorFolded ==
    /\ Alive
    /\ pc = "toolerr"
    /\ pc' = "agent"
    /\ UNCHANGED <<driver, ragVars, frame, stt_call, tts_outcome, held, tts_text,
                   ruby_state, chat_history, user_input, response,
                   running, langVars, audioVars, tool_calls, uiVars, rpc,
                   ghostVars>>

----------------------------------------------------------------------------
(* The presentation loop: main (app.py 79-135) *)

\* lines 83-86: pygame.event.get() delivers a MOUSEBUTTONDOWN
UiClick ==
    /\ uipc = "events"
    /\ ui_running
    /\ uipc' = "u88"
    /\ stop_calls' = 0
    /\ ui_stale' = FALSE
    /\ UNCHANGED <<driver, ragVars, frame, stt_call, tts_outcome, held, tts_text,
                   pc, ruby_state, chat_history, user_input, response,
                   running, langVars, audioVars, tool_calls, ui_running, rpc,
                   cycle_start_len, failed, reasoned, stop_handled,
                   reset_in_cycle, turns_after_reset>>

\* a click handler that does not test the phase before stopping
UiCheck88NoTest ==
    /\ uipc = "u88"
    /\ uipc' = "u90"
    /\ UNCHANGED <<driver, ragVars, frame, stt_call, tts_outcome, held, tts_text,
                   pc, ruby_state, chat_history, user_input, response,
                   running, langVars, audioVars, tool_calls, ui_running, rpc,
                   ghostVars>>

\* line 88: `if ruby.ruby_state == "Speaking":`
UiCheck88 ==
    /\ uipc = "u88"
    /\ uipc' = IF ruby_state = "Speaking" THEN "u90" ELSE "events"
    /\ UNCHANGED <<driver, ragVars, frame, stt_call, tts_outcome, held, tts_text,
                   pc, ruby_state, chat_history, user_input, response,
                   running, langVars, audioVars, tool_calls, ui_running, rpc,
                   ghostVars>>

\* lines 89-90: print; ruby.tts.stop()
UiStop90 ==
    /\ uipc = "u90"
    /\ RubyTTSStop
    /\ stop_calls' = stop_calls + 1
    /\ uipc' = "u91"
    /\ UNCHANGED <<driver, ragVars, frame, stt_call, tts_outcome, held, tts_text,
                   pc, ruby_state, chat_history, user_input, response,
                   running, langVars, cache_file, video_process, tool_calls,
                   ui_running, rpc, cycle_start_len, failed, reasoned,
                   stop_handled, ui_stale, reset_in_cycle, turns_after_reset>>

\* line 91: ruby.ruby_state = "Idel"
UiSet91 ==
    /\ uipc = "u91"
    /\ ruby_state' = "Idel"
    /\ uipc' = "events"
    /\ stop_handled' = (stop_handled \/ ~ui_stale)
    /\ held' = Held(ruby_state')
    /\ UNCHANGED <<driver, ragVars, frame, stt_call, tts_outcome, tts_text,
                   pc, chat_history, user_input, response, running,
                   langVars, audioVars, tool_calls, ui_running, rpc,
                   cycle_start_len, failed, reasoned, stop_calls, ui_stale,
                   reset_in_cycle, turns_after_reset>>

\* lines 84-85: a QUIT event sets running = False and the loop is left
UiQuit ==
    /\ uipc = "events"
    /\ ui_running
    /\ ui_running' = FALSE
    /\ uipc' = "u134"
    /\ UNCHANGED <<driver, ragVars, frame, stt_call, tts_outcome, held, tts_text,
                   pc, ruby_state, chat_history, user_input, response,
                   running, langVars, audioVars, tool_calls, rpc, ghostVars>>

\* line 134: worker.stop() sets RubyWorker.running = False (app.py 59-60)
UiWorkerStop134 ==
    /\ uipc = "u134"
    /\ running' = FALSE
    /\ uipc' = "u135"
    /\ UNCHANGED <<driver, ragVars, frame, stt_call, tts_outcome, held, tts_text,
                   pc, ruby_state, chat_history, user_input, response,
                   langVars, audioVars, tool_calls, ui_running, rpc,
                   ghostVars>>

\* line 135: pygame.quit(); main returns and the daemon worker dies with it
UiExit135 ==
    /\ uipc = "u135"
    /\ uipc' = "exited"
    /\ UNCHANGED <<driver, ragVars, frame, stt_call, tts_outcome, held, tts_text,
                   pc, ruby_state, chat_history, user_input, response,
                   running, langVars, audioVars, tool_calls, ui_running, rpc,
                   ghostVars>>

----------------------------------------------------------------------------
(* Ruby.reset (ruby_mainframe.py 120-123), called from another context *)

\* a reset that empties the history, dropping the system turn as well
Reset122Clear ==
    /\ Alive
    /\ rpc = "out"
    /\ chat_history' = <<>>
    /\ rpc' = "r123"
    /\ reset_in_cycle' = (reset_in_cycle \/ pc \in SpeakPcs)
    /\ turns_after_reset' = 0
    /\ UNCHANGED <<driver, ragVars, frame, stt_call, tts_outcome, held, tts_text,
                   pc, ruby_state, user_input, response, running,
                   langVars, audioVars, tool_calls, uiVars, cycle_start_len,
                   failed, reasoned, stop_calls, stop_handled, ui_stale>>

\* line 122: self.chat_history = {"messages": [SystemMessage(...)]}
Reset122 ==
    /\ Alive
    /\ rpc = "out"
    /\ chat_history' = <<SystemTurn>>
    /\ rpc' = "r123"
    /\ reset_in_cycle' = (reset_in_cycle \/ pc \in SpeakPcs)
    /\ turns_after_reset' = 0
    /\ UNCHANGED <<driver, ragVars, frame, stt_call, tts_outcome, held, tts_text,
                   pc, ruby_state, user_input, response, running,
                   langVars, audioVars, tool_calls, uiVars, cycle_start_len,
                   failed, reasoned, stop_calls, stop_handled, ui_stale>>

\* line 123: self.ruby_state = "idel"; reset returns
Reset123 ==
    /\ Alive
    /\ rpc = "r123"
    /\ ruby_state' = "idel"
    /\ rpc' = "out"
    /\ held' = Held(ruby_state')
    /\ UNCHANGED <<driver, ragVars, frame, stt_call, tts_outcome, tts_text,
                   pc, chat_history, user_input, response, running,
                   langVars, audioVars, tool_calls, uiVars, ghostVars>>

----------------------------------------------------------------------------
(* Specifications *)

\* the steps of the thread that runs listen and speak
CycleNext ==
    \/ LoopTest \/ Listen115 \/ CaptureReturns \/ CaptureFails \/ CheckInput
    \/ Speak93 \/ Speak94 \/ Speak97 \/ AgentReturns \/ AgentFails
    \/ AgentCallsSwitch \/ Switch106 \/ Switch108 \/ Switch109 \/ Switch111
    \/ AgentCallsYouTube \/ YouTube29 \/ YouTube51 \/ YouTube51Fails
    \/ YouTube55 \/ YouTube63 \/ YouTube66
    \/ ToolErrorPropagates \/ ToolErrorFolded
    \/ Speak100 \/ Speak102
    \/ TTS158 \/ TTS165 \/ TTSFails \/ TTS176 \/ TTS181 \/ TTS184 \/ TTS189 \/ TTS191
    \/ Speak106

\* the devices: the mixer and the video player
DeviceNext == ClipEnds \/ VideoEnds

\* the presentation loop
UiNext ==
    \/ UiClick \/ UiCheck88 \/ UiStop90 \/ UiSet91
    \/ UiQuit \/ UiWorkerStop134 \/ UiExit135

\* frontend/app.py: the worker thread, the presentation loop, the devices
Next == CycleNext \/ Except \/ DeviceNext \/ UiNext

Spec == Init /\ [][Next]_vars

\* the same program with Ruby.reset called from one more context
NextReset == Next \/ Reset122 \/ Reset123

SpecReset == Init /\ [][NextReset]_vars

\* Ruby.run on the console: no worker, no presentation loop
NextConsole == CycleNext \/ DeviceNext

SpecConsole == InitConsole /\ [][NextConsole]_vars

\* Ruby.run on the console with Ruby.reset called from one more context
NextConsoleReset == NextConsole \/ Reset122 \/ Reset123

SpecConsoleReset == InitConsole /\ [][NextConsoleReset]_vars

\* the worker thread is scheduled: a step of it that stays possible is taken
LiveSpec == Spec /\ WF_vars(CycleNext \/ Except)

----------------------------------------------------------------------------
(* Properties of the conversation cycle *)

\* the driver is back at its loop test after a cycle in which nothing raised
CycleEndedWell == pc = "loop" /\ failed = "none"

\* C1: in the worker loop, a cycle in which no collaborator fails lengthens
\* the history by exactly 2 when the capture returned text (the user turn,
\* then the assistant turn, tools or not) and by exactly 0 when it returned
\* the empty text.
C1_HistoryGrowsByTwo ==
    CycleEndedWell =>
        IF user_input # ""
        THEN /\ Len(chat_history) = cycle_start_len + 2
             /\ chat_history[Len(chat_history) - 1] = HumanMessage(user_input)
             /\ chat_history[Len(chat_history)] = AIMessage(response)
        ELSE Len(chat_history) = cycle_start_len

\* a second successful cycle with text has ended, and its reasoning used a tool
C1_Witness ==
    /\ CycleEndedWell
    /\ user_input # ""
    /\ tool_calls > 0
    /\ cycle_start_len = 3
    /\ Len(chat_history) = 5

\* C2: when the reasoning call or the synthesis call raises after text was
\* captured, the history at the end of the cycle holds both turns of the
\* cycle or neither; a failure of the capture call appends nothing.
C2_NoPartialTurn ==
    pc = "except" =>
        /\ failed = "capture" => Len(chat_history) = cycle_start_len
        /\ failed \in {"reasoning", "tool", "synthesis"} =>
              Len(chat_history) - cycle_start_len \in {0, 2}

\* C3: whenever a cycle ends because a collaborator raised, the phase when
\* the worker's exception handler runs is one of the idle values.
C3_IdleAfterFailure == pc = "except" => ruby_state \in IdleValues

\* C4: a failure in one cycle never ends the worker loop: from the exception
\* handler the worker, while its running flag is true, calls listen again.
C4_WorkerSurvivesFailure ==
    (pc = "except" /\ running) ~> (pc = "capture" \/ ~running)

\* the handler runs for a cycle that follows another failed cycle (a history
\* of even length is left only by a failed reasoning call)
C4_Witness ==
    /\ pc = "except"
    /\ running
    /\ failed = "reasoning"
    /\ cycle_start_len = 2

\* C5: when the capture returns the empty text, the phase goes from
\* Listening back to an idle value, the reasoning collaborator is not
\* invoked and no turn is appended in that cycle, in both drivers.
C5_EmptyCaptureEndsCycle ==
    (user_input = "" /\ pc \notin {"listen", "capture", "check"}) =>
        /\ ~reasoned
        /\ Len(chat_history) = cycle_start_len
        /\ pc = "loop" => ruby_state \in IdleValues

----------------------------------------------------------------------------
(* Properties of reset *)

\* C6: reset, invoked in any phase and with a history of any length, leaves
\* exactly the system turn in the history and an idle phase at the moment
\* it returns.
C6_ResetYieldsInitial ==
    [][(rpc = "r123" /\ rpc' = "out") =>
          (chat_history' = <<SystemTurn>> /\ ruby_state' \in IdleValues)]_vars

\* C7: when reset is invoked while a cycle is inside speak, reset wins: no
\* turn of that cycle is appended after the reset, and the rest of the
\* cycle does not move the phase away from idle.
C7_ResetWins ==
    reset_in_cycle =>
        /\ turns_after_reset = 0
        /\ rpc = "out" => ruby_state \in IdleValues

----------------------------------------------------------------------------
(* Properties of the stop-speaking request *)

\* C8: a click handled while the phase is Speaking calls tts.stop() once and
\* sets the phase to an idle value; handled while the phase is anything else
\* it ends at once: stop() is not called, phase, history and mixer stay as
\* they are, and the handler returns to the event loop.
C8_StopSpeakingHandler ==
    [][/\ (uipc = "u88" /\ uipc' # "u88" /\ ruby_state # "Speaking") =>
             /\ uipc' = "events"
             /\ stop_calls' = 0
             /\ UNCHANGED <<ruby_state, chat_history, playing>>
       /\ (uipc = "u88" /\ uipc' # "u88" /\ ruby_state = "Speaking") =>
             uipc' = "u90"
       /\ (uipc = "u90" /\ uipc' # "u90") =>
             /\ uipc' = "u91"
             /\ stop_calls' = 1
             /\ ~playing'
       /\ (uipc = "u91" /\ uipc' # "u91") =>
             /\ uipc' = "events"
             /\ stop_calls' = 1
             /\ ruby_state' \in IdleValues
             /\ UNCHANGED chat_history]_vars

\* a handler that saw Speaking while the clip played has stopped the mixer
\* and set the phase
C8_Witness ==
    /\ uipc = "events"
    /\ stop_calls = 1
    /\ stop_handled
    /\ pc = "t184"
    /\ ~playing
    /\ ruby_state = "Idel"

\* C9: once a stop request issued while the phase is Speaking has been
\* handled, no audio of that cycle's reply is playing or starts playing.
C9_StopHaltsPlayback == stop_handled => ~playing

----------------------------------------------------------------------------
(* Properties of the language switch *)

\* C10: switch_language called with an identifier that is not a key of
\* language_config reports an error instead of success and leaves the
\* language of the synthesis and of the capture collaborator unchanged.
C10_UnregisteredRejected ==
    [][(language \notin Registered /\ pc \in {"sw106", "sw108", "sw109", "sw111"}) =>
          /\ tts_language_code' = tts_language_code
          /\ stt_language_code' = stt_language_code
          /\ pc' = "agent" => switch_result' # SwitchResult(language)]_vars

\* C11: switch_language called with a registered identifier L sets the
\* capture collaborator's language_code and recognition config language and
\* the synthesis collaborator's language_code to L: each reads L when the
\* tool returns.
C11_RegisteredSwitchSetsBoth ==
    [][(pc = "sw111" /\ pc' = "agent" /\ language \in Registered) =>
          /\ stt_language_code' = language
          /\ stt_config_language' = language
          /\ tts_language_code' = language
          /\ switch_result' = SwitchResult(language)]_vars

\* the tool has returned from a switch away from the initial language
C11_Witness ==
    /\ pc = "agent"
    /\ switch_result = "Switched to ml-IN"
    /\ stt_language_code = "ml-IN"
    /\ stt_config_language = "ml-IN"
    /\ tts_language_code = "ml-IN"

\* C12: in every reachable state the active language of the synthesis
\* collaborator and that of the capture collaborator are members of the
\* registered set {en-IN, ml-IN, ta-IN}.
C12_ActiveLanguageRegistered ==
    /\ tts_language_code \in Registered
    /\ stt_language_code \in Registered

\* C13: RubyTTS.update_language(l) sets language_code to l and the voice to
\* the one configured for l when l is supported, and falls back to en-IN
\* with the en-IN voice when it is not, whatever language was active.
C13_TTSUpdateLanguage ==
    [][(pc = "sw108" /\ pc' = "sw109") =>
          /\ language \in Registered =>
                /\ tts_language_code' = language
                /\ tts_voice_name' = language_config[language]
          /\ language \notin Registered =>
                /\ tts_language_code' = "en-IN"
                /\ tts_voice_name' = "en-IN-Standard-D"]_vars

\* the fallback has run while ml-IN was the active language (the capture
\* collaborator, updated after it, still holds ml-IN)
C13_Witness ==
    /\ pc = "sw109"
    /\ language = "fr-FR"
    /\ stt_language_code = "ml-IN"
    /\ tts_language_code = "en-IN"
    /\ tts_voice_name = "en-IN-Standard-D"

----------------------------------------------------------------------------
(* Properties of the tools *)

\* C18: an internal failure of a built-in capability becomes a text result
\* for the reasoning step: no exception leaves the capability and none
\* aborts the cycle.
C18_ToolFailureIsText == pc # "toolerr" /\ failed # "tool"

\* C19: during youtube_video_player the phase is 'Searching Video' while the
\* query is resolved and 'Playing Video' while the player process runs, the
\* phase being set before playback starts; the tool returns only after the
\* player has ended.
C19_MediaPhases ==
    /\ pc = "yt51" => ruby_state = "Searching Video"
    /\ video_process => ruby_state = "Playing Video"
    /\ (video_process /\ pc \in SpeakPcs) => pc = "yt63"

----------------------------------------------------------------------------
(* The knowledge store: RubyRAG (utiles/rag_utiles.py) *)

\* files offered for ingestion: a text file, a PDF, a file of another type
\* whose bytes are valid UTF-8, and one whose bytes are not
FileNames == {"a.txt", "b.pdf", "c.html", "d.png"}

\* os.path.splitext(file_path)[-1].lower() (rag_utiles.py 68)
FileExt(f) ==
    CASE f = "a.txt" -> ".txt"
      [] f = "b.pdf" -> ".pdf"
      [] f = "c.html" -> ".html"
      [] f = "d.png" -> ".png"

\* the types the store is meant to ingest: PDF and plain text
SupportedExt == {".pdf", ".txt"}

\* whether the bytes of the file decode as UTF-8
Utf8Readable(f) == f # "d.png"

\* the chunks text_splitter.split_documents gives for the file's text
FileChunks(f) ==
    CASE f = "a.txt" -> <<"alpha", "beta">>
      [] f = "b.pdf" -> <<"gamma">>
      [] f = "c.html" -> <<"beta">>
      [] f = "d.png" -> <<>>

\* RubyRAG._load_documents (58-76): PyPDFLoader for ".pdf", TextLoader with
\* encoding utf-8 for every other extension; TextLoader raises when the
\* bytes do not decode
LoadDocuments(f) ==
    IF FileExt(f) = ".pdf"
    THEN [raised |-> FALSE, docs |-> FileChunks(f)]
    ELSE IF Utf8Readable(f)
         THEN [raised |-> FALSE, docs |-> FileChunks(f)]
         ELSE [raised |-> TRUE, docs |-> <<>>]

\* query texts, and the result counts a caller passes (3 is the default)
Queries == {"what is alpha", "what is gamma"}

DefaultK == 3

Ks == {1, DefaultK}

\* the embedding collaborator, as a position on a line
Embed(text) ==
    CASE text \in {"alpha", "what is alpha"} -> 1
      [] text = "beta" -> 3
      [] text \in {"gamma", "what is gamma"} -> 6

Distance(a, b) == IF a >= b THEN a - b ELSE b - a

\* embeddings.embed_documents: one vector per chunk
EmbedAll(docs) == [p \in DOMAIN docs |-> Embed(docs[p])]

\* FAISS.from_documents(docs, self.embeddings) (rag_utiles.py 88-91)
FromDocuments(docs) ==
    [present |-> TRUE, chunks |-> docs, vectors |-> EmbedAll(docs)]

\* self.vectorstore.add_documents(docs) (rag_utiles.py 94)
AddDocuments(vectorstore, docs) ==
    [present |-> TRUE,
     chunks |-> vectorstore.chunks \o docs,
     vectors |-> vectorstore.vectors \o EmbedAll(docs)]

\* vectorstore.save_local(db_path): index.faiss holds the vectors, index.pkl
\* the documents (rag_utiles.py 96)
SaveLocal(vectorstore) ==
    [present |-> TRUE, faiss |-> vectorstore.vectors, pkl |-> vectorstore.chunks]

\* FAISS.load_local(db_path, embeddings, ...) (rag_utiles.py 48-52)
LoadLocal(files) ==
    [present |-> TRUE, chunks |-> files.pkl, vectors |-> files.faiss]

\* the position, among those in `among`, whose stored vector is nearest to
\* the query's; of equally near ones the one added first
Nearest(vectors, among, q) ==
    CHOOSE p \in among :
        \A r \in among :
            \/ Distance(vectors[p], Embed(q)) < Distance(vectors[r], Embed(q))
            \/ /\ Distance(vectors[p], Embed(q)) = Distance(vectors[r], Embed(q))
               /\ p <= r

RECURSIVE Ranked(_, _, _, _)
\* vectorstore.similarity_search(query, k=k): the k nearest chunks, nearest first
Ranked(vectorstore, among, q, k) ==
    IF k = 0 \/ among = {}
    THEN <<>>
    ELSE <<vectorstore.chunks[Nearest(vectorstore.vectors, among, q)]>>
            \o Ranked(vectorstore,
                      among \ {Nearest(vectorstore.vectors, among, q)}, q, k - 1)

\* a search that ranks every chunk and ignores k
SimilaritySearchAll(vectorstore, q, k) ==
    Ranked(vectorstore, DOMAIN vectorstore.vectors, q, Len(vectorstore.vectors))

SimilaritySearch(vectorstore, q, k) ==
    Ranked(vectorstore, DOMAIN vectorstore.vectors, q, k)

\* rag_utiles.py 117-119: f"[Context {i}]\n{doc.page_content}"
ContextSection(i, text) == "[Context " \o ToString(i) \o "]\n" \o text

RECURSIVE JoinSections(_, _)
\* rag_utiles.py 115-121: the sections, numbered from i, joined by the separator
JoinSections(docs, i) ==
    IF docs = <<>>
    THEN ""
    ELSE IF Len(docs) = 1
         THEN ContextSection(i, docs[1])
         ELSE ContextSection(i, docs[1]) \o "\n\n---\n\n"
                 \o JoinSections(Tail(docs), i + 1)

\* a query that answers an absent index with the empty string
RagQueryResultEmpty(vectorstore, q, k) ==
    IF ~vectorstore.present
    THEN [raised |-> FALSE, text |-> ""]
    ELSE [raised |-> FALSE,
          text |-> JoinSections(SimilaritySearch(vectorstore, q, k), 1)]

\* RubyRAG.query (99-121) on a vectorstore: RuntimeError without an index,
\* else the formatted context of the k nearest chunks
RagQueryResult(vectorstore, q, k) ==
    IF ~vectorstore.present
    THEN [raised |-> TRUE, text |-> "No existing DB found."]
    ELSE [raised |-> FALSE,
          text |-> JoinSections(SimilaritySearch(vectorstore, q, k), 1)]

\* a constructor that leaves loading for later
RagInitLazy(i) ==
    /\ rag[i].state = "unborn"
    /\ rag' = [rag EXCEPT ![i].state = "idle", ![i].vectorstore = NoIndex]
    /\ rag_out' = [NoOutcome EXCEPT !.op = "init", !.id = i]
    /\ UNCHANGED <<rubyVars, db_index, persisted_by>>

\* RubyRAG.__init__ (39-54): load the index when db_path exists, else None
RagInit(i) ==
    /\ rag[i].state = "unborn"
    /\ rag' = [rag EXCEPT ![i].state = "idle",
                          ![i].vectorstore =
                              IF db_index.present THEN LoadLocal(db_index)
                              ELSE NoIndex]
    /\ rag_out' = [NoOutcome EXCEPT !.op = "init", !.id = i]
    /\ UNCHANGED <<rubyVars, db_index, persisted_by>>

\* the instance is dropped (del rag, or the process ends)
RagDiscard(i) ==
    /\ rag[i].state = "idle"
    /\ rag' = [rag EXCEPT ![i] =
                  [state |-> "unborn", vectorstore |-> NoIndex, file |-> "",
                   docs |-> <<>>, pre |-> NoIndex, embedded |-> FALSE]]
    /\ rag_out' = [NoOutcome EXCEPT !.op = "discard", !.id = i]
    /\ UNCHANGED <<rubyVars, db_index, persisted_by>>

\* add_documents(file_path) is called (78)
RagAddCall(i) ==
    /\ rag[i].state = "idle"
    /\ \E f \in FileNames :
          /\ Len(rag[i].vectorstore.chunks) + Len(FileChunks(f)) <= MaxIndex
          /\ rag' = [rag EXCEPT ![i].state = "a85",
                                ![i].file = f,
                                ![i].docs = <<>>,
                                ![i].pre = rag[i].vectorstore,
                                ![i].embedded = FALSE]
    /\ UNCHANGED <<rubyVars, db_index, rag_out, persisted_by>>

\* line 85: docs = self._load_documents(file_path)
RagLoad85(i) ==
    /\ rag[i].state = "a85"
    /\ IF LoadDocuments(rag[i].file).raised
       THEN /\ rag' = [rag EXCEPT ![i].state = "idle", ![i].file = "",
                                  ![i].pre = NoIndex]
            /\ rag_out' = [NoOutcome EXCEPT !.op = "add", !.id = i,
                                            !.raised = TRUE]
       ELSE /\ rag' = [rag EXCEPT ![i].state = "a86",
                                  ![i].docs = LoadDocuments(rag[i].file).docs]
            /\ UNCHANGED rag_out
    /\ UNCHANGED <<rubyVars, db_index, persisted_by>>

\* an ingestion that rebuilds the index from the new file alone
RagMutate86Rebuild(i) ==
    /\ rag[i].state = "a86"
    /\ rag' = [rag EXCEPT ![i].state = "a96",
                          ![i].embedded = TRUE,
                          ![i].vectorstore = FromDocuments(rag[i].docs)]
    /\ UNCHANGED <<rubyVars, db_index, rag_out, persisted_by>>

\* lines 86-94: FAISS.from_documents(docs, ...) when vectorstore is None,
\* else vectorstore.add_documents(docs); both embed the chunks
RagMutate86(i) ==
    /\ rag[i].state = "a86"
    /\ rag' = [rag EXCEPT
                  ![i].state = "a96",
                  ![i].embedded = TRUE,
                  ![i].vectorstore =
                      IF ~rag[i].vectorstore.present
                      THEN FromDocuments(rag[i].docs)
                      ELSE AddDocuments(rag[i].vectorstore, rag[i].docs)]
    /\ UNCHANGED <<rubyVars, db_index, rag_out, persisted_by>>

\* lines 96-97: self.vectorstore.save_local(self.db_path); return
RagSave96(i) ==
    /\ rag[i].state = "a96"
    /\ db_index' = SaveLocal(rag[i].vectorstore)
    /\ persisted_by' = rag[i].vectorstore
    /\ rag' = [rag EXCEPT ![i].state = "idle", ![i].file = "",
                          ![i].docs = <<>>, ![i].pre = NoIndex,
                          ![i].embedded = FALSE]
    /\ rag_out' = [NoOutcome EXCEPT !.op = "add", !.id = i]
    /\ UNCHANGED rubyVars

\* query(query, k) is called on an instance (99-121)
RagQuery(i) ==
    /\ rag[i].state = "idle"
    /\ \E q \in Queries, k \in Ks :
          rag_out' = [op |-> "query", id |-> i, q |-> q, k |-> k,
                      raised |-> RagQueryResult(rag[i].vectorstore, q, k).raised,
                      text |-> RagQueryResult(rag[i].vectorstore, q, k).text]
    /\ UNCHANGED <<rubyVars, db_index, rag, persisted_by>>

\* toolbox.query_document (26-32): rag_utiles.RobiRAG().query(query) inside
\* try/except. rag_utiles defines RubyRAG and no RobiRAG, so the attribute
\* lookup raises AttributeError and the tool returns str(e)
QueryDocument ==
    /\ \E q \in Queries :
          rag_out' = [op |-> "tool", id |-> 0, q |-> q, k |-> DefaultK,
                      raised |-> FALSE,
                      text |-> "module 'utiles.rag_utiles' has no attribute 'RobiRAG'"]
    /\ UNCHANGED <<rubyVars, db_index, rag, persisted_by>>

\* callers of the store: instances are built, used and dropped
NextRag ==
    \/ \E i \in RagIds : RagInit(i)
    \/ \E i \in RagIds : RagDiscard(i)
    \/ \E i \in RagIds : RagAddCall(i)
    \/ \E i \in RagIds : RagLoad85(i)
    \/ \E i \in RagIds : RagMutate86(i)
    \/ \E i \in RagIds : RagSave96(i)
    \/ \E i \in RagIds : RagQuery(i)
    \/ QueryDocument

SpecRag == Init /\ [][NextRag]_vars

----------------------------------------------------------------------------
(* Claims about the knowledge store *)

\* C14: a store constructed where nothing is persisted has no index; a store
\* without an index gets one only by the ingestion step; and a query on a
\* store without an index raises with the text "No existing DB found.",
\* whatever the query text and k, instead of returning an empty string
C14_QueryWithoutIndexRaises ==
    [][\A i \in RagIds :
          /\ (rag[i].state = "unborn" /\ rag'[i].state = "idle"
                /\ ~db_index.present)
                => ~rag'[i].vectorstore.present
          /\ (rag[i].state # "unborn" /\ ~rag[i].vectorstore.present
                /\ rag'[i].vectorstore.present)
                => rag[i].state = "a86"
          /\ (rag_out' # rag_out /\ rag_out'.op = "query" /\ rag_out'.id = i
                /\ ~rag[i].vectorstore.present)
                => /\ rag_out'.raised
                   /\ rag_out'.text = "No existing DB found."
                   /\ rag_out'.text # ""]_vars

C14_Witness ==
    /\ rag_out.op = "query"
    /\ rag_out.raised
    /\ rag_out.text = "No existing DB found."
    /\ rag_out.k = DefaultK
    /\ ~db_index.present
    /\ ~rag[rag_out.id].vectorstore.present

\* C15: when add_documents returns, what is persisted at db_path loads back
\* as the in-memory index, and that index holds the chunks it held when the
\* call began followed by the chunks of the ingested file
C15_AddAppendsAndPersists ==
    [][\A i \in RagIds :
          (rag[i].state = "a96" /\ rag'[i].state = "idle")
             => /\ db_index'.present
                /\ LoadLocal(db_index') = rag'[i].vectorstore
                /\ rag'[i].vectorstore.present
                /\ rag'[i].vectorstore.chunks
                      = rag[i].pre.chunks \o FileChunks(rag[i].file)
                /\ rag'[i].vectorstore.vectors
                      = EmbedAll(rag[i].pre.chunks \o FileChunks(rag[i].file))]_vars

\* the same file ingested twice: its chunk is held twice
C15_Witness ==
    /\ rag_out.op = "add"
    /\ ~rag_out.raised
    /\ rag[rag_out.id].state = "idle"
    /\ rag[rag_out.id].vectorstore.chunks = <<"gamma", "gamma">>
    /\ db_index.pkl = <<"gamma", "gamma">>

\* C16: a store constructed where an index is persisted has that index as
\* soon as the constructor returns, and answers every query and k as the
\* instance that persisted it does
C16_ReloadRoundTrip ==
    [][\A i \in RagIds :
          (rag[i].state = "unborn" /\ rag'[i].state = "idle"
             /\ db_index.present)
             => /\ rag'[i].vectorstore.present
                /\ \A q \in Queries, k \in Ks :
                      RagQueryResult(rag'[i].vectorstore, q, k)
                         = RagQueryResult(persisted_by, q, k)]_vars

\* a fresh instance, the only one alive, has loaded a two-chunk index
C16_Witness ==
    /\ rag_out.op = "init"
    /\ rag[rag_out.id].state = "idle"
    /\ rag[rag_out.id].vectorstore.chunks = <<"alpha", "beta">>
    /\ \A j \in RagIds \ {rag_out.id} : rag[j].state = "unborn"
    /\ RagQueryResult(rag[rag_out.id].vectorstore, "what is alpha", 1).text
          = "[Context 1]\nalpha"

\* C17: the loading step of an ingestion whose file is neither PDF nor
\* plain text ends the call with an error, with the in-memory index and the
\* persisted index as they were
C17_UnsupportedTypeRejected ==
    [][\A i \in RagIds :
          (rag[i].state = "a85" /\ FileExt(rag[i].file) \notin SupportedExt
             /\ rag'[i] # rag[i])
             => /\ rag'[i].state = "idle"
                /\ rag_out'.op = "add"
                /\ rag_out'.raised
                /\ rag'[i].vectorstore = rag[i].vectorstore
                /\ db_index' = db_index]_vars

\* C20: with an index persisted, the query_document tool returns what the
\* store's query returns for the same text with the default k
C20_ToolDelegatesToStore ==
    [][(rag_out' # rag_out /\ rag_out'.op = "tool" /\ db_index.present)
          => rag_out'.text
                = RagQueryResult(LoadLocal(db_index), rag_out'.q, DefaultK).text]_vars

----------------------------------------------------------------------------
(* Properties of the order of events inside speak *)

\* C21: in a cycle the user turn is appended before the reasoning
\* collaborator is invoked (so the history it is given ends with that turn),
\* the assistant turn is appended after the reasoning has returned and before
\* the synthesis collaborator is invoked; the phase is Thinking from before
\* the user append until the assistant append, and Speaking during synthesis
\* (the value the stop-speaking handler writes is let through in both).
C21_OrderAndPhases ==
    /\ pc = "s94" =>
          /\ ~reasoned
          /\ Len(chat_history) = cycle_start_len
    /\ pc = "s97" =>
          /\ ~reasoned
          /\ Len(chat_history) = cycle_start_len + 1
          /\ chat_history[Len(chat_history)] = HumanMessage(user_input)
    /\ pc \in {"agent", "s100"} =>
          /\ reasoned
          /\ Len(chat_history) = cycle_start_len + 1
          /\ chat_history[Len(chat_history)] = HumanMessage(user_input)
    /\ pc \in {"s102", "t158", "t165", "t176", "t180", "t184", "t189"} =>
          /\ reasoned
          /\ Len(chat_history) = cycle_start_len + 2
          /\ chat_history[Len(chat_history)] = AIMessage(response)
    /\ pc \in {"s94", "s97", "agent", "s100"} =>
          ruby_state \in {"Thinking", "Idel"}
    /\ pc \in {"t158", "t165", "t176", "t180", "t184", "t189"} =>
          ruby_state \in {"Speaking", "Idel"}

----------------------------------------------------------------------------
(* Properties of concurrent use of one storage location *)

\* C22: two ingestions at the same db_path never overlap (no instance is
\* inside add_documents while another one is), and no ingestion loses
\* another's update: every chunk persisted before a save is still persisted
\* after it.
C22_SingleWriter ==
    [][/\ \A i, j \in RagIds :
             (i # j /\ rag'[i].state \in {"a85", "a86", "a96"})
                => rag'[j].state \notin {"a85", "a86", "a96"}
       /\ \A i \in RagIds :
             (rag[i].state = "a96" /\ rag'[i].state = "idle")
                => \A p \in DOMAIN db_index.pkl :
                      \E r \in DOMAIN db_index'.pkl :
                         db_index'.pkl[r] = db_index.pkl[p]]_vars

----------------------------------------------------------------------------
(* The frame of the presentation loop: main (app.py 93-132) *)

\* the event loop of line 83 has no more events: the chain of line 96 begins
UiFrame ==
    /\ uipc = "events"
    /\ ui_running
    /\ uipc' = "f96"
    /\ frame' = NoFrame
    /\ held' = {ruby_state}
    /\ UNCHANGED <<driver, ragVars, stt_call, tts_outcome, tts_text, pc, ruby_state,
                   chat_history, user_input, response, running, langVars,
                   audioVars, tool_calls, ui_running, rpc, ghostVars>>

\* lines 96-99: `if ruby.ruby_state == "Listening":`
UiTest96 ==
    /\ uipc = "f96"
    /\ IF ruby_state = "Listening"
       THEN /\ frame' = [color |-> "LISTENING_COLOR", status_text |-> "Listening..."]
            /\ uipc' = "f124"
       ELSE /\ frame' = frame
            /\ uipc' = "f100"
    /\ UNCHANGED <<driver, ragVars, stt_call, tts_outcome, tts_text, held, pc, ruby_state,
                   chat_history, user_input, response, running, langVars,
                   audioVars, tool_calls, ui_running, rpc, ghostVars>>

\* lines 100-103: `elif ruby.ruby_state == "Speaking":`
UiTest100 ==
    /\ uipc = "f100"
    /\ IF ruby_state = "Speaking"
       THEN /\ frame' = [color |-> "SPEAKING_COLOR", status_text |-> "Speaking..."]
            /\ uipc' = "f124"
       ELSE /\ frame' = frame
            /\ uipc' = "f104"
    /\ UNCHANGED <<driver, ragVars, stt_call, tts_outcome, tts_text, held, pc, ruby_state,
                   chat_history, user_input, response, running, langVars,
                   audioVars, tool_calls, ui_running, rpc, ghostVars>>

\* lines 104-107: `elif ruby.ruby_state == "Thinking":`
UiTest104 ==
    /\ uipc = "f104"
    /\ IF ruby_state = "Thinking"
       THEN /\ frame' = [color |-> "THINKING_COLOR", status_text |-> "Thinking..."]
            /\ uipc' = "f124"
       ELSE /\ frame' = frame
            /\ uipc' = "f108"
    /\ UNCHANGED <<driver, ragVars, stt_call, tts_outcome, tts_text, held, pc, ruby_state,
                   chat_history, user_input, response, running, langVars,
                   audioVars, tool_calls, ui_running, rpc, ghostVars>>

\* lines 108-111: `elif ruby.ruby_state == "Playing Video":`
UiTest108 ==
    /\ uipc = "f108"
    /\ IF ruby_state = "Playing Video"
       THEN /\ frame' = [color |-> "THINKING_COLOR", status_text |-> "Playing Video..."]
            /\ uipc' = "f124"
       ELSE /\ frame' = frame
            /\ uipc' = "f112"
    /\ UNCHANGED <<driver, ragVars, stt_call, tts_outcome, tts_text, held, pc, ruby_state,
                   chat_history, user_input, response, running, langVars,
                   audioVars, tool_calls, ui_running, rpc, ghostVars>>

\* lines 112-119: the last test, and the else branch of the chain
UiTest112 ==
    /\ uipc = "f112"
    /\ frame' = IF ruby_state = "Searching Video"
                THEN [color |-> "THINKING_COLOR",
                      status_text |-> "Searching Video..."]
                ELSE [color |-> "IDLE_COLOR", status_text |-> "Idle"]
    /\ uipc' = "f124"
    /\ UNCHANGED <<driver, ragVars, stt_call, tts_outcome, tts_text, held, pc, ruby_state,
                   chat_history, user_input, response, running, langVars,
                   audioVars, tool_calls, ui_running, rpc, ghostVars>>

\* lines 124-132: fill, draw the circle, render the text, flip; the frame
\* stays on the screen and the loop goes back to clock.tick and the events
UiDraw124 ==
    /\ uipc = "f124"
    /\ uipc' = "events"
    /\ held' = {}
    /\ UNCHANGED <<driver, ragVars, stt_call, tts_outcome, tts_text, frame, pc, ruby_state,
                   chat_history, user_input, response, running, langVars,
                   audioVars, tool_calls, ui_running, rpc, ghostVars>>

FrameNext ==
    \/ UiFrame \/ UiTest96 \/ UiTest100 \/ UiTest104 \/ UiTest108
    \/ UiTest112 \/ UiDraw124

\* frontend/app.py with the frames the presentation loop draws
NextFrame == Next \/ FrameNext

SpecFrame == Init /\ [][NextFrame]_vars

\* what the chain of lines 96-119 gives when the phase is v throughout
FrameOf(v) ==
    CASE v = "Listening" ->
            [color |-> "LISTENING_COLOR", status_text |-> "Listening..."]
      [] v = "Speaking" ->
            [color |-> "SPEAKING_COLOR", status_text |-> "Speaking..."]
      [] v = "Thinking" ->
            [color |-> "THINKING_COLOR", status_text |-> "Thinking..."]
      [] v = "Playing Video" ->
            [color |-> "THINKING_COLOR", status_text |-> "Playing Video..."]
      [] v = "Searching Video" ->
            [color |-> "THINKING_COLOR", status_text |-> "Searching Video..."]
      [] OTHER -> [color |-> "IDLE_COLOR", status_text |-> "Idle"]

\* C23: the colour and the label of the frame that is drawn are those of a
\* phase value the phase held at some instant while the frame was computed
C23_FrameFromSnapshot ==
    uipc = "f124" => \E v \in held : frame = FrameOf(v)

----------------------------------------------------------------------------
(* Properties of the steps of the language switch *)

\* C24: a switch to a registered language sets the phase to
\* switching_language, then updates the capture collaborator's language
\* first (the synthesis collaborator's still unchanged) and the synthesis
\* collaborator's second, then sets an idle phase and returns the success
\* text naming the language.
C24_SwitchOrder ==
    [][(language \in Registered) =>
          /\ (pc = "sw106" /\ pc' # "sw106") =>
                (pc' = "sw108" /\ ruby_state' = "switching_language")
          /\ (pc = "sw108" /\ pc' # "sw108") =>
                /\ stt_language_code' = language
                /\ tts_language_code' = tts_language_code
          /\ (pc = "sw109" /\ pc' # "sw109") =>
                /\ tts_language_code' = language
                /\ stt_language_code' = stt_language_code
          /\ (pc = "sw111" /\ pc' # "sw111") =>
                /\ pc' = "agent"
                /\ ruby_state' \in IdleValues
                /\ switch_result' = SwitchResult(language)]_vars

----------------------------------------------------------------------------
(* Properties of the shape of the history *)

\* C25: through cycles and resets the history always begins with the system
\* turn and holds no other system turn, and every step other than the
\* assignment of reset keeps the turns already present, each at its position.
C25_SystemTurnFirstAppendOnly ==
    [][/\ Len(chat_history') >= 1
       /\ chat_history'[1] = SystemTurn
       /\ \A p \in 2..Len(chat_history') : chat_history'[p].role # "system"
       /\ ~(rpc = "out" /\ rpc' = "r123") =>
             /\ Len(chat_history') >= Len(chat_history)
             /\ SubSeq(chat_history', 1, Len(chat_history)) = chat_history]_vars

\* a reset ran while a cycle was inside speak, and the cycle then appended
\* its two turns to the new history
C25_Witness ==
    /\ reset_in_cycle
    /\ turns_after_reset = 2
    /\ Len(chat_history) = 3
    /\ chat_history[1] = SystemTurn
    /\ chat_history[3].role = "assistant"

----------------------------------------------------------------------------
(* The collaborators called directly, as test/tts_test.py and             *)
(* test/stt_test.py call them: RubyTTS.text_to_speech, update_language,   *)
(* stop, and RubySTT.listen over a stream of recognition responses        *)

\* longest stream of responses streaming_recognize delivers before it ends
MaxStream == 3

\* the values a caller passes to text_to_speech
TextInputs == {PyNone, PyStr(""), PyStr("ok"), PyInt("0"), PyInt("123")}

InitDirect == driver = "direct" /\ InitRuby /\ InitStore

\* the caller calls tts.text_to_speech(x)
DirectTTSCall ==
    /\ pc = "loop"
    /\ stt_call.pc = "out"
    /\ \E x \in TextInputs : tts_text' = x
    /\ pc' = "t158"
    /\ UNCHANGED <<driver, ragVars, frame, held, tts_outcome, stt_call,
                   ruby_state, chat_history, user_input, response, running,
                   langVars, audioVars, tool_calls, uiVars, rpc, ghostVars>>

\* the caller calls tts.update_language(l)
DirectTTSUpdateLanguage ==
    /\ pc = "loop"
    /\ stt_call.pc = "out"
    /\ \E l \in LanguageInputs : RubyTTSUpdateLanguage(l)
    /\ UNCHANGED <<driver, ragVars, frame, held, tts_text, tts_outcome,
                   stt_call, pc, ruby_state, chat_history, user_input,
                   response, running, stt_language_code, stt_config_language,
                   language, switch_result, audioVars, tool_calls, uiVars,
                   rpc, ghostVars>>

\* another thread calls tts.stop() while the clip plays
DirectTTSStop ==
    /\ playing
    /\ RubyTTSStop
    /\ UNCHANGED <<driver, ragVars, frame, held, tts_text, tts_outcome,
                   stt_call, pc, ruby_state, chat_history, user_input,
                   response, running, langVars, cache_file, video_process,
                   tool_calls, uiVars, rpc, ghostVars>>

\* a recognition result: results[k].is_final, results[k].alternatives[0].transcript
Result(is_final, transcript) ==
    [is_final |-> is_final, transcript |-> transcript]

\* the responses of the stream, each the list response.results: no result,
\* an interim result followed by a final one, and two final results
Responses ==
    {<<>>,
     <<Result(FALSE, "he"), Result(TRUE, "x")>>,
     <<Result(TRUE, "hello")>>,
     <<Result(TRUE, "hi")>>}

\* the streams streaming_recognize may deliver before it ends
Streams == UNION {[1..n -> Responses] : n \in 0..MaxStream}

\* stt.py 117-128: listen is called; streaming_recognize gives the responses
STTListen ==
    /\ pc = "loop"
    /\ stt_call.pc = "out"
    /\ \E rs \in Streams :
          stt_call' = [pc |-> "l131", responses |-> rs, i |-> 0, ret |-> ""]
    /\ UNCHANGED <<driver, ragVars, frame, held, tts_text, tts_outcome, pc,
                   ruby_state, chat_history, user_input, response, running,
                   langVars, audioVars, tool_calls, uiVars, rpc, ghostVars>>

\* line 131: `for response in responses:` takes the next response, or the
\* stream has ended
STT131 ==
    /\ stt_call.pc = "l131"
    /\ stt_call' = IF stt_call.i < Len(stt_call.responses)
                   THEN [stt_call EXCEPT !.i = stt_call.i + 1, !.pc = "l132"]
                   ELSE [stt_call EXCEPT !.pc = "l140"]
    /\ UNCHANGED <<driver, ragVars, frame, held, tts_text, tts_outcome, pc,
                   ruby_state, chat_history, user_input, response, running,
                   langVars, audioVars, tool_calls, uiVars, rpc, ghostVars>>

\* lines 132-133: `if not response.results: continue`
STT132 ==
    /\ stt_call.pc = "l132"
    /\ stt_call' = IF stt_call.responses[stt_call.i] = <<>>
                   THEN [stt_call EXCEPT !.pc = "l131"]
                   ELSE [stt_call EXCEPT !.pc = "l137"]
    /\ UNCHANGED <<driver, ragVars, frame, held, tts_text, tts_outcome, pc,
                   ruby_state, chat_history, user_input, response, running,
                   langVars, audioVars, tool_calls, uiVars, rpc, ghostVars>>

\* a listen that returns the first result's transcript, final or not
STT137AnyResult ==
    /\ stt_call.pc = "l137"
    /\ stt_call' = [stt_call EXCEPT
                       !.ret = stt_call.responses[stt_call.i][1].transcript,
                       !.pc = "done"]
    /\ UNCHANGED <<driver, ragVars, frame, held, tts_text, tts_outcome, pc,
                   ruby_state, chat_history, user_input, response, running,
                   langVars, audioVars, tool_calls, uiVars, rpc, ghostVars>>

\* lines 135-138: result = response.results[0]; `if result.is_final:
\* return result.alternatives[0].transcript`, else the loop goes on
STT137 ==
    /\ stt_call.pc = "l137"
    /\ stt_call' = IF stt_call.responses[stt_call.i][1].is_final
                   THEN [stt_call EXCEPT
                            !.ret = stt_call.responses[stt_call.i][1].transcript,
                            !.pc = "done"]
                   ELSE [stt_call EXCEPT !.pc = "l131"]
    /\ UNCHANGED <<driver, ragVars, frame, held, tts_text, tts_outcome, pc,
                   ruby_state, chat_history, user_input, response, running,
                   langVars, audioVars, tool_calls, uiVars, rpc, ghostVars>>

\* line 140: return ""
STT140 ==
    /\ stt_call.pc = "l140"
    /\ stt_call' = [stt_call EXCEPT !.ret = "", !.pc = "done"]
    /\ UNCHANGED <<driver, ragVars, frame, held, tts_text, tts_outcome, pc,
                   ruby_state, chat_history, user_input, response, running,
                   langVars, audioVars, tool_calls, uiVars, rpc, ghostVars>>

\* the caller has the value listen returned
STTReturn ==
    /\ stt_call.pc = "done"
    /\ stt_call' = NoListen
    /\ UNCHANGED <<driver, ragVars, frame, held, tts_text, tts_outcome, pc,
                   ruby_state, chat_history, user_input, response, running,
                   langVars, audioVars, tool_calls, uiVars, rpc, ghostVars>>

\* the steps of text_to_speech and of listen, and their caller, which makes
\* one call at a time
NextDirect ==
    \/ DirectTTSCall \/ DirectTTSUpdateLanguage \/ DirectTTSStop
    \/ TTS158 \/ TTS165 \/ TTSFails \/ TTS176 \/ TTS181 \/ TTS184 \/ TTS189 \/ TTS191
    \/ ClipEnds
    \/ STTListen \/ STT131 \/ STT132 \/ STT137 \/ STT140 \/ STTReturn

SpecDirect == InitDirect /\ [][NextDirect]_vars

\* C26: text_to_speech called with None, the empty string or a value that
\* is not a string returns at once: the synthesis API is not called, no
\* cache file is written, no playback starts and nothing is raised.
C26_EmptyTextIsNoOp ==
    [][(pc = "t158" /\ pc' # "t158"
          /\ (tts_text.type # "str" \/ tts_text.repr = ""))
          => /\ pc' = TTSReturn
             /\ tts_outcome' = [how |-> "early", text |-> tts_text]
             /\ failed' = failed
             /\ UNCHANGED <<playing, cache_file>>]_vars

\* a call with a non-empty value that is not a string has returned
C26_Witness ==
    /\ driver = "direct"
    /\ pc = "loop"
    /\ tts_outcome = [how |-> "early", text |-> PyInt("123")]
    /\ tts_language_code = "ml-IN"
    /\ ~playing
    /\ ~cache_file
    /\ failed = "none"

\* C27: listen returns the transcript of the first response whose first
\* result is final, passing over responses without results and responses
\* whose first result is not final, and the empty string when the stream
\* ends without such a response.
C27_ListenFirstFinal ==
    stt_call.pc = "done" =>
        LET rs == stt_call.responses
            finals == {p \in DOMAIN rs : rs[p] # <<>> /\ rs[p][1].is_final}
        IN  IF finals = {}
            THEN stt_call.ret = ""
            ELSE \E p \in finals :
                    /\ \A r \in finals : p <= r
                    /\ stt_call.ret = rs[p][1].transcript

\* an empty response and an interim one were passed over, the third is final
C27_Witness ==
    /\ stt_call.pc = "done"
    /\ stt_call.ret = "hello"
    /\ stt_call.i = 3
    /\ stt_call.responses
          = << <<>>, <<Result(FALSE, "he"), Result(TRUE, "x")>>,
               <<Result(TRUE, "hello")>> >>

----------------------------------------------------------------------------
(* Properties of the two collaborators' languages and of the handler race *)

\* C28: whenever no switch is between its two updates, the synthesis
\* collaborator's language and the capture collaborator's language are
\* equal, whatever identifiers the switches were given.
C28_LanguagesAgree ==
    pc # "sw109" => tts_language_code = stt_language_code

\* C29: while the worker is blocked in the capture collaborator the phase is
\* Listening: the stop-speaking handler's write never lands on a phase the
\* worker set for a later step or for the next cycle.
C29_ListeningWhileCapturing ==
    pc = "capture" => ruby_state = "Listening"

----------------------------------------------------------------------------
(* Properties of the text a query returns *)

\* C30: a query with result count k on a store of n chunks returns
\* min(k, n) sections: the chunks nearest to the query, nearest first, each
\* chunk at most once, section i being "[Context i]", a newline and the
\* chunk's text, with the separator line between sections (so that every
\* chunk is in the text when n <= k).
C30_QueryFormat ==
    [][(rag_out' # rag_out /\ rag_out'.op = "query" /\ ~rag_out'.raised) =>
          LET vs == rag[rag_out'.id].vectorstore
              n == Len(vs.chunks)
              m == IF rag_out'.k <= n THEN rag_out'.k ELSE n
              d(p) == Distance(vs.vectors[p], Embed(rag_out'.q))
              label == <<"[Context 1]\n", "[Context 2]\n", "[Context 3]\n",
                         "[Context 4]\n">>
              sep == "\n\n---\n\n"
              Block(o) ==
                  IF m = 1 THEN label[1] \o vs.chunks[o[1]]
                  ELSE IF m = 2
                  THEN label[1] \o vs.chunks[o[1]] \o sep
                          \o label[2] \o vs.chunks[o[2]]
                  ELSE label[1] \o vs.chunks[o[1]] \o sep
                          \o label[2] \o vs.chunks[o[2]] \o sep
                          \o label[3] \o vs.chunks[o[3]]
          IN  /\ m \in 1..3
              /\ \E o \in [1..m -> 1..n] :
                    /\ \A a, b \in 1..m : a < b =>
                          (o[a] # o[b] /\ d(o[a]) <= d(o[b]))
                    /\ \A p \in 1..n :
                          (\A a \in 1..m : o[a] # p) => d(p) >= d(o[m])
                    /\ rag_out'.text = Block(o)]_vars

\* both chunks of a.txt returned for k = 3, the later one first
C30_Witness ==
    /\ rag_out.op = "query"
    /\ rag_out.q = "what is gamma"
    /\ rag_out.k = DefaultK
    /\ rag[rag_out.id].vectorstore.chunks = <<"alpha", "beta">>
    /\ rag_out.text = "[Context 1]\nbeta\n\n---\n\n[Context 2]\nalpha"

\* ---------------------------------------------------------------------
\* text_to_speech called directly, with the thread that runs it and the
\* audio device making progress
\* ---------------------------------------------------------------------

\* the steps of text_to_speech, lines 158-191
TTSSteps ==
    \/ TTS158 \/ TTS165 \/ TTSFails \/ TTS176 \/ TTS181 \/ TTS184
    \/ TTS189 \/ TTS191

\* the calling thread keeps being scheduled, and a clip of finite length
\* that nobody stops plays to its end
LiveDirect ==
    /\ SpecDirect
    /\ WF_vars(TTSSteps)
    /\ WF_vars(ClipEnds)

\* the steps of a call that synthesizes follow in the order of lines
\* 165, 176, 180-181, 184, 188: the file is written after the API call
\* returned, playback starts after the file is written, the wait is left
\* only when the mixer is not busy, and the mixer is busy during the wait only
TTSStepOrder ==
    /\ [][/\ (pc' = "t176" /\ pc # "t176") => pc = "t165"
          /\ (pc' = "t180" /\ pc # "t180") => (pc = "t176" /\ cache_file')
          /\ (pc' = "t184" /\ pc # "t184") => (pc = "t180" /\ playing')
          /\ (pc' = "t189" /\ pc # "t189") => (pc = "t184" /\ ~playing)
          /\ (cache_file' /\ ~cache_file) => pc = "t176"
          /\ (playing' /\ ~playing) => pc = "t180"]_vars
    /\ [](playing => (pc = "t184" /\ cache_file))

\* the wait of lines 184-185 ends, whether the clip ends or is stopped
TTSWaitEnds == (pc = "t184") ~> (pc = "t189")

\* C31: text_to_speech with non-empty text calls the synthesis API, writes
\* the cache file, loads it, plays it, waits until the mixer is no longer
\* busy and removes the cache file, in this order; the wait ends whether
\* the clip ends by itself or stop() ends it, and when the call returns
\* after the wait the cache file is gone.
C31_SpeakOrderAndCleanup ==
    /\ TTSStepOrder
    /\ TTSWaitEnds
    /\ [][(pc = "t189" /\ pc' # "t189") => ~cache_file']_vars

\* ---------------------------------------------------------------------
\* one worker thread runs the cycles (app.py 75-76)
\* ---------------------------------------------------------------------

\* C32: cycles are strictly sequential: a cycle begins only after the
\* previous one ended (its capture was empty, its speak returned, or it
\* failed), and while the worker is between cycles or capturing, nothing of
\* an earlier cycle is still running: no text_to_speech call is open, the
\* mixer is not playing and no video player is running.
C32_CyclesSequential ==
    /\ [][/\ (pc' = "capture" /\ pc # "capture") => pc = "listen"
          /\ (pc' = "listen" /\ pc # "listen") => pc = "loop"
          /\ (pc' = "loop" /\ pc # "loop") => pc \in {"check", "s106", "except"}
          /\ (pc' = "s93" /\ pc # "s93") => pc = "check"]_vars
    /\ [](pc \in {"loop", "listen", "capture", "check"}
            => (tts_text = Unbound /\ ~playing /\ ~video_process))

\* the second cycle captures after the first one appended its turn and ended
C32_Witness ==
    /\ pc = "capture"
    /\ cycle_start_len = 3
    /\ chat_history[2] = HumanMessage("hi")
    /\ Len(chat_history) = 3
    /\ ~playing

====
